---- MODULE Spec2Model ----
(***************************************************************************)
(* Model of the query builder of spec-dev/qb (src/lib/queryBuilder.ts,     *)
(* src/lib/chains.ts): buildSelectQuery, buildUpsertQuery and the name     *)
(* normalizer toSnakeCase.                                                 *)
(*                                                                         *)
(* Strings that the code takes apart (column paths, property names, table  *)
(* names) are sequences of one-character strings.  Generated SQL is a      *)
(* sequence of tokens.  JavaScript values are records with a type tag.     *)
(***************************************************************************)
EXTENDS Integers, Sequences, FiniteSets, TLC

VARIABLES call, result

vars == <<call, result>>

(***************************************************************************)
(* Bounds of the model.                                                    *)
(***************************************************************************)
MaxLen == 4

MaxRows == 2

MaxGroups == 2

MaxEntries == 3

(***************************************************************************)
(* Characters.                                                             *)
(***************************************************************************)
LowerChars ==
    <<"a","b","c","d","e","f","g","h","i","j","k","l","m",
      "n","o","p","q","r","s","t","u","v","w","x","y","z">>

UpperChars ==
    <<"A","B","C","D","E","F","G","H","I","J","K","L","M",
      "N","O","P","Q","R","S","T","U","V","W","X","Y","Z">>

DigitChars == <<"0","1","2","3","4","5","6","7","8","9">>

IndexIn(c, chars) ==
    IF \E i \in DOMAIN chars : chars[i] = c
    THEN CHOOSE i \in DOMAIN chars : chars[i] = c
    ELSE 0

IsLowerLetter(c) == IndexIn(c, LowerChars) > 0

IsUpperLetter(c) == IndexIn(c, UpperChars) > 0

IsDigit(c) == IndexIn(c, DigitChars) > 0

\* String.prototype.toUpperCase on one character.
toUpperCase(c) == IF IsLowerLetter(c) THEN UpperChars[IndexIn(c, LowerChars)] ELSE c

\* String.prototype.toLowerCase on one character.
toLowerCase(c) == IF IsUpperLetter(c) THEN LowerChars[IndexIn(c, UpperChars)] ELSE c

\* UTF-16 code unit of a character of the alphabet (the order Array.prototype.sort uses).
CharCode(c) ==
    IF c = "," THEN 44
    ELSE IF c = "." THEN 46
    ELSE IF IsDigit(c) THEN 47 + IndexIn(c, DigitChars)
    ELSE IF IsUpperLetter(c) THEN 64 + IndexIn(c, UpperChars)
    ELSE IF c = "_" THEN 95
    ELSE 96 + IndexIn(c, LowerChars)

\* The elements of a sequence.
Range(s) == {s[i] : i \in DOMAIN s}

\* All sequences over S of length at most n.
SeqsUpTo(S, n) == UNION {[1..k -> S] : k \in 0..n}

(***************************************************************************)
(* Name normalizer.                                                        *)
(***************************************************************************)

\* `x && x === x.toUpperCase()` for the character at position i of val
\* (undefined outside the string, hence falsy).
CharIsUpperCase(val, i) ==
    /\ i \in DOMAIN val
    /\ val[i] = toUpperCase(val[i])

\* The condition of the if of removeAcronymFromCamel, on the original input.
AcronymTest(val, i) ==
    /\ CharIsUpperCase(val, i - 1)
    /\ CharIsUpperCase(val, i)
    /\ (CharIsUpperCase(val, i + 1) \/ i = Len(val))

\* A removeAcronymFromCamel whose else is missing: the character is appended
\* a second time after it was lowercased.
removeAcronymNoElse(val) ==
    LET piece(i) ==
            IF AcronymTest(val, i)
            THEN <<toLowerCase(val[i]), val[i]>>
            ELSE <<val[i]>>
        Cat[i \in 0..Len(val)] == IF i = 0 THEN <<>> ELSE Cat[i - 1] \o piece(i)
    IN  Cat[Len(val)]

removeAcronymFromCamel(val) ==
    [i \in 1..Len(val) |->
        IF AcronymTest(val, i) THEN toLowerCase(val[i]) ELSE val[i]]

\* humps.decamelize: a separator before each uppercase letter that follows a
\* lowercase letter or a digit, then the whole string lowercased.
decamelize(s) ==
    LET piece(i) ==
            IF /\ i > 1
               /\ IsUpperLetter(s[i])
               /\ (IsLowerLetter(s[i - 1]) \/ IsDigit(s[i - 1]))
            THEN <<"_", toLowerCase(s[i])>>
            ELSE <<toLowerCase(s[i])>>
        Cat[i \in 0..Len(s)] == IF i = 0 THEN <<>> ELSE Cat[i - 1] \o piece(i)
    IN  Cat[Len(s)]

toSnakeCase(value) == decamelize(removeAcronymFromCamel(value))

(***************************************************************************)
(* The normalizer applied to bounded strings.                              *)
(***************************************************************************)
NameAlphabet == {"a", "A", "B", "1", "_", ".", ","}

NameInputs == SeqsUpTo(NameAlphabet, MaxLen)

NoCall == [op |-> "none"]

NoResult == [kind |-> "none"]

Init ==
    /\ call = NoCall
    /\ result = NoResult

\* toSnakeCase(x), and toSnakeCase applied again to what it returned.
\* Every call is independent of the ones before it (the module keeps no
\* state), so a behaviour is one call made from the initial state.
Normalize ==
    /\ call = NoCall
    /\ \E x \in NameInputs :
        /\ call' = [op |-> "toSnakeCase", value |-> x]
        /\ result' = [kind |-> "name",
                      pass |-> removeAcronymFromCamel(x),
                      once |-> toSnakeCase(x),
                      twice |-> toSnakeCase(toSnakeCase(x))]

NameNext == Normalize

NameSpec == Init /\ [][NameNext]_vars

\* C10: toColumnName is idempotent: normalizing an already normalized name
\* returns it unchanged.
C10_Idempotent ==
    result.kind = "name" => result.twice = result.once

\* C10 witness: a name with an acronym and a camel hump was normalized
\* (the normalizer changed it, and the second pass had something to look at).
C10_Witness ==
    /\ result.kind = "name"
    /\ call.value = <<"a", "A", "B", "B">>
    /\ result.once = <<"a", "_", "a", "b", "b">>

(***************************************************************************)
(* JavaScript values.  ty is the type tag; n the number (or, for a string  *)
(* of digits, the number it spells; for an object, how many keys it has    *)
(* besides op and value); items the elements of a list; op the op property *)
(* of an object ("" when it has none); val the value property of an object *)
(* (<<>> when it has no such key).                                         *)
(***************************************************************************)
JsVal(ty, n, items, op, val) ==
    [ty |-> ty, n |-> n, items |-> items, op |-> op, val |-> val]

Undefined == JsVal("undefined", 0, <<>>, "", <<>>)

Null == JsVal("null", 0, <<>>, "", <<>>)

Num(n) == JsVal("number", n, <<>>, "", <<>>)

Str(n) == JsVal("string", n, <<>>, "", <<>>)

List(items) == JsVal("list", 0, items, "", <<>>)

\* {op: op, value: v}
Filter(op, v) == JsVal("object", 0, <<>>, op, <<v>>)

\* An object with `extra` keys besides op, and no value key.
Obj(op, extra) == JsVal("object", extra, <<>>, op, <<>>)

\* Array.isArray(value)
IsArray(value) == value.ty = "list"

\* Object.keys(value).length of an object
NumKeys(value) == (IF value.op = "" THEN 0 ELSE 1) + Len(value.val) + value.n

(***************************************************************************)
(* SQL text as a sequence of tokens.  k is the kind of the token: a        *)
(* keyword or punctuation (its text), "ident" (a quoted identifier, s its  *)
(* name), "op" (s holds the operator), "lit" (a literal, b holds the       *)
(* value) or "$" (the placeholder $n; b records the value that was pushed  *)
(* onto the bindings when the placeholder was written).                    *)
(***************************************************************************)
Tok(k, s, n, b) == [k |-> k, s |-> s, n |-> n, b |-> b]

Kw(k) == Tok(k, <<>>, 0, <<>>)

\* pgFormat.ident(name): the name as one quoted identifier.
ident(name) == Tok("ident", name, 0, <<>>)

\* pgFormat.literal(value): the value rendered into the text.
literal(value) == Tok("lit", <<>>, 0, <<value>>)

Placeholder(i, bound) == Tok("$", <<>>, i, <<bound>>)

OpTok(op) == Tok("op", <<op>>, 0, <<>>)

\* The concatenation of a sequence of sequences.
RECURSIVE Flatten(_)
Flatten(ss) == IF ss = <<>> THEN <<>> ELSE Head(ss) \o Flatten(Tail(ss))

\* Array.prototype.join on token sequences: the parts with sep between them.
RECURSIVE JoinToks(_, _)
JoinToks(parts, sep) ==
    IF parts = <<>> THEN <<>>
    ELSE IF Len(parts) = 1 THEN parts[1]
    ELSE parts[1] \o sep \o JoinToks(Tail(parts), sep)

\* String.prototype.split(sep) on a string of characters.
RECURSIVE Split(_, _)
Split(str, sep) ==
    IF \E i \in DOMAIN str : str[i] = sep
    THEN LET i == CHOOSE j \in DOMAIN str :
                    str[j] = sep /\ \A h \in 1..(j - 1) : str[h] # sep
         IN  <<SubSeq(str, 1, i - 1)>> \o Split(SubSeq(str, i + 1, Len(str)), sep)
    ELSE <<str>>

\* Array.prototype.join(sep) on strings of characters.
RECURSIVE JoinStr(_, _)
JoinStr(parts, sep) ==
    IF parts = <<>> THEN <<>>
    ELSE IF Len(parts) = 1 THEN parts[1]
    ELSE parts[1] \o <<sep>> \o JoinStr(Tail(parts), sep)

\* identPath: every dot-separated segment quoted, joined by dots.
identPath(value) ==
    JoinToks([i \in DOMAIN Split(value, ".") |-> <<ident(Split(value, ".")[i])>>],
             <<Kw(".")>>)

\* names.map(toSnakeCase).map(ident).join(', ')
IdentList(names) ==
    JoinToks([i \in DOMAIN names |-> <<ident(toSnakeCase(names[i]))>>], <<Kw(",")>>)

\* The first two segments of table.split('.'); a missing segment is <<>>.
SchemaName(table) == Split(table, ".")[1]

TableName(table) ==
    IF Len(Split(table, ".")) > 1 THEN Split(table, ".")[2] ELSE <<>>

Payload(table, sql, bindings) ==
    [kind |-> "payload",
     schemaName |-> SchemaName(table),
     tableName |-> TableName(table),
     sql |-> sql,
     bindings |-> bindings]

Throw(error) == [kind |-> "throw", error |-> error]

(***************************************************************************)
(* Objects are sequences of <<key, value>> pairs in insertion order.       *)
(***************************************************************************)
\* Object.keys(obj)
Keys(obj) == [i \in DOMAIN obj |-> obj[i][1]]

\* obj[key]: undefined when obj has no such key.
Get(obj, key) ==
    IF \E i \in DOMAIN obj : obj[i][1] = key
    THEN obj[CHOOSE i \in DOMAIN obj : obj[i][1] = key][2]
    ELSE Undefined

\* a < b in the order of Array.prototype.sort: by UTF-16 code units.
RECURSIVE StrLess(_, _)
StrLess(a, b) ==
    IF a = <<>> THEN b # <<>>
    ELSE IF b = <<>> THEN FALSE
    ELSE IF CharCode(a[1]) # CharCode(b[1]) THEN CharCode(a[1]) < CharCode(b[1])
    ELSE StrLess(Tail(a), Tail(b))

\* Array.prototype.sort() of a list of strings.
RECURSIVE Sort(_)
Sort(names) ==
    IF names = <<>> THEN <<>>
    ELSE LET m == CHOOSE i \in DOMAIN names :
                    \A j \in DOMAIN names :
                        \/ StrLess(names[i], names[j])
                        \/ (~StrLess(names[j], names[i]) /\ i <= j)
             rest == [j \in 1..(Len(names) - 1) |->
                        IF j < m THEN names[j] ELSE names[j + 1]]
         IN  <<names[m]>> \o Sort(rest)

(***************************************************************************)
(* buildUpsertQuery.                                                       *)
(* data is [isArray, rows]: rows holds the rows of a list, or the one      *)
(* object that was passed in place of a list.  returning is                *)
(* [ty, names]: ty "undefined", "string" (names holds the string) or       *)
(* "array".  primaryTimestampColumn is <<>> when it is not given.          *)
(***************************************************************************)
\* data = Array.isArray(data) ? data : [data]
DataRows(data) == data.rows

\* An insertColNames that keeps the order of the keys of the first row.
insertColNamesUnsorted(rows) == Keys(rows[1])

\* Object.keys(data[0]).sort()
insertColNames(rows) == Sort(Keys(rows[1]))

\* The inner loop: one placeholder and one binding per column of the entry.
\* st is [i, bindings, placeholders].
RECURSIVE UpsertEntryLoop(_, _, _, _)
UpsertEntryLoop(entry, cols, c, st) ==
    IF c > Len(cols) THEN st
    ELSE UpsertEntryLoop(entry, cols, c + 1,
            [i |-> st.i + 1,
             bindings |-> Append(st.bindings, Get(entry, cols[c])),
             placeholders |->
                Append(st.placeholders,
                       <<Placeholder(st.i, Get(entry, cols[c]))>>)])

\* The outer loop: one parenthesized group per entry of data.
\* st is [i, bindings, placeholders].
RECURSIVE UpsertDataLoop(_, _, _, _)
UpsertDataLoop(rows, cols, r, st) ==
    IF r > Len(rows) THEN st
    ELSE LET e == UpsertEntryLoop(rows[r], cols, 1,
                     [i |-> st.i, bindings |-> st.bindings, placeholders |-> <<>>])
         IN  UpsertDataLoop(rows, cols, r + 1,
                [i |-> e.i,
                 bindings |-> e.bindings,
                 placeholders |->
                    Append(st.placeholders,
                           <<Kw("(")>> \o JoinToks(e.placeholders, <<Kw(",")>>)
                                       \o <<Kw(")")>>)])

\* `if (returning)`
ReturningGiven(returning) ==
    \/ returning.ty = "array"
    \/ (returning.ty = "string" /\ returning.names[1] # <<>>)

\* The returning clause of the statement.
ReturningClause(returning) ==
    IF returning.ty = "string" /\ returning.names[1] = <<"*">>
    THEN <<Kw("returning"), Kw("*")>>
    ELSE <<Kw("returning")>> \o IdentList(returning.names)

\* `if (!updateColumns.length) { sql += ' do nothing'; return ... }`
DoNothing(returning) == <<Kw("do nothing")>>

\* The do update set part, the timestamp guard and the returning clause.
DoUpdate(table, updateColumns, primaryTimestampColumn, returning) ==
    <<Kw("do update set")>>
        \o JoinToks([i \in DOMAIN updateColumns |->
                        <<ident(toSnakeCase(updateColumns[i])), Kw("= excluded."),
                          ident(toSnakeCase(updateColumns[i]))>>],
                    <<Kw(",")>>)
        \o (IF primaryTimestampColumn # <<>>
            THEN <<Kw("where")>>
                    \o identPath(JoinStr(<<table, primaryTimestampColumn>>, "."))
                    \o <<Kw("<= excluded."), ident(primaryTimestampColumn)>>
            ELSE <<>>)
        \o (IF ReturningGiven(returning) THEN ReturningClause(returning) ELSE <<>>)

\* What buildUpsertQuery throws before it builds anything ("" when nothing):
\* Object.keys(undefined) is a TypeError; no columns is 'No values to upsert'.
UpsertFailure(rows) ==
    IF rows = <<>> THEN "TypeError"
    ELSE IF insertColNames(rows) = <<>> THEN "No values to upsert"
    ELSE ""

buildUpsertQuery(table, data, conflictColumns, updateColumns, primaryTimestampColumn, returning) ==
    LET rows == DataRows(data)
    IN  IF UpsertFailure(rows) # "" THEN Throw(UpsertFailure(rows))
        ELSE
        LET cols == insertColNames(rows)
            vals == UpsertDataLoop(rows, cols, 1,
                        [i |-> 1, bindings |-> <<>>, placeholders |-> <<>>])
            sql == <<Kw("insert into")>> \o identPath(table)
                       \o <<Kw("(")>> \o IdentList(cols) \o <<Kw(")")>>
                       \o <<Kw("values")>>
                       \o JoinToks(vals.placeholders, <<Kw(",")>>)
                       \o <<Kw("on conflict"), Kw("(")>>
                       \o IdentList(conflictColumns) \o <<Kw(")")>>
        IN  IF updateColumns = <<>>
            THEN Payload(table, sql \o DoNothing(returning), vals.bindings)
            ELSE Payload(table,
                         sql \o DoUpdate(table, updateColumns,
                                         primaryTimestampColumn, returning),
                         vals.bindings)

(***************************************************************************)
(* buildUpsertQuery applied to bounded inputs.                             *)
(***************************************************************************)
ColId == <<"i", "d">>

ColAZ == <<"a", "Z">>

ColA_b == <<"a", "_", "b">>

ColTs == <<"t", "s">>

Star == <<"*">>

PublicTable == <<"p", "u", "b", ".", "t">>

UpsertKeys == <<ColA_b, ColAZ, ColId>>

\* The keys of a row, in every insertion order.
RowKeyOrders ==
    {ks \in SeqsUpTo(Range(UpsertKeys), Len(UpsertKeys)) :
        \A i, j \in DOMAIN ks : i # j => ks[i] # ks[j]}

\* Row r with the given keys: every cell holds a value of its own.
Row(keys, r) ==
    [i \in DOMAIN keys |-> <<keys[i], Num(10 * r + IndexIn(keys[i], UpsertKeys))>>]

RowsOf(kss) == [r \in DOMAIN kss |-> Row(kss[r], r)]

NoReturning == [ty |-> "undefined", names |-> <<>>]

ReturningString(name) == [ty |-> "string", names |-> <<name>>]

ReturningArray(names) == [ty |-> "array", names |-> names]

ReturningCases ==
    {NoReturning, ReturningString(Star), ReturningString(ColAZ), ReturningString(<<>>),
     ReturningArray(<<ColId, ColAZ>>), ReturningArray(<<>>)}

UpsertArgs(table, data, conflictColumns, updateColumns, primaryTimestampColumn, returning) ==
    [op |-> "upsert", table |-> table, data |-> data,
     conflictColumns |-> conflictColumns, updateColumns |-> updateColumns,
     primaryTimestampColumn |-> primaryTimestampColumn, returning |-> returning]

\* Every shape of rows, with a few settings of the other arguments.
UpsertRowInputs ==
    {UpsertArgs(PublicTable, d, <<ColId>>, u[1], <<>>, u[2]) :
        d \in {[isArray |-> TRUE, rows |-> RowsOf(kss)] :
                    kss \in SeqsUpTo(RowKeyOrders, MaxRows)}
              \cup {[isArray |-> FALSE, rows |-> RowsOf(<<ks>>)] : ks \in RowKeyOrders},
        u \in {<<<<>>, NoReturning>>,
               <<<<ColAZ>>, ReturningString(Star)>>}}

\* Every setting of the other arguments, with a few shapes of rows.
UpsertClauseInputs ==
    {UpsertArgs(PublicTable, [isArray |-> TRUE, rows |-> RowsOf(kss)], c, u, t, ret) :
        kss \in {<<<<ColId, ColAZ>>>>, <<<<ColId>>, <<ColId>>>>},
        c \in {<<ColId>>, <<ColId, ColAZ>>},
        u \in {<<>>, <<ColAZ>>, <<ColAZ, ColA_b>>},
        t \in {<<>>, ColTs},
        ret \in ReturningCases}

UpsertInputs == UpsertRowInputs \cup UpsertClauseInputs

Upsert ==
    /\ call = NoCall
    /\ \E a \in UpsertInputs :
        /\ call' = a
        /\ result' = buildUpsertQuery(a.table, a.data, a.conflictColumns,
                                      a.updateColumns, a.primaryTimestampColumn,
                                      a.returning)

UpsertNext == Upsert

UpsertSpec == Init /\ [][UpsertNext]_vars

\* s ends with suffix.
EndsWith(s, suffix) ==
    /\ Len(s) >= Len(suffix)
    /\ SubSeq(s, Len(s) - Len(suffix) + 1, Len(s)) = suffix

\* s starts with prefix.
StartsWith(s, prefix) ==
    /\ Len(s) >= Len(prefix)
    /\ SubSeq(s, 1, Len(prefix)) = prefix

\* C7: whenever compileUpsert is called with returning supplied, the sql ends
\* with the returning clause (returning *, or returning and the normalized
\* quoted columns), also when updateColumns is empty.
C7_ReturningAlways ==
    (/\ call.op = "upsert"
     /\ result.kind = "payload"
     /\ ReturningGiven(call.returning))
    => EndsWith(result.sql,
                IF call.returning = ReturningString(Star)
                THEN <<Kw("returning"), Kw("*")>>
                ELSE <<Kw("returning")>>
                        \o JoinToks([i \in DOMAIN call.returning.names |->
                                        <<ident(toSnakeCase(call.returning.names[i]))>>],
                                    <<Kw(",")>>))

\* The keys of the first row in ascending order of their code units.
SortedKeys(row) ==
    CHOOSE k \in [1..Len(row) -> Range(Keys(row))] :
        \A i, j \in DOMAIN k : i < j => StrLess(k[i], k[j])

\* C8: with K the sorted keys of the first row, the insert column list is K
\* normalized and quoted, the values section has one group of C placeholders
\* per row, there are R*C bindings, and placeholder (r-1)*C + c is bound to
\* row r's value for K[c] (undefined when the row lacks the key).
C8_RowMajor ==
    (call.op = "upsert" /\ result.kind = "payload") =>
        LET rows == call.data.rows
            K == SortedKeys(rows[1])
            R == Len(rows)
            C == Len(K)
            cell(n) == Get(rows[((n - 1) \div C) + 1], K[((n - 1) % C) + 1])
            group(r) ==
                <<Kw("(")>>
                    \o JoinToks([c \in 1..C |->
                                    <<Placeholder((r - 1) * C + c,
                                                  cell((r - 1) * C + c))>>],
                                <<Kw(",")>>)
                    \o <<Kw(")")>>
        IN  /\ StartsWith(result.sql,
                <<Kw("insert into")>> \o identPath(call.table) \o <<Kw("(")>>
                    \o JoinToks([c \in 1..C |-> <<ident(toSnakeCase(K[c]))>>],
                                <<Kw(",")>>)
                    \o <<Kw(")"), Kw("values")>>
                    \o JoinToks([r \in 1..R |-> group(r)], <<Kw(",")>>)
                    \o <<Kw("on conflict")>>)
            /\ result.bindings = [n \in 1..(R * C) |-> cell(n)]

\* C8 witness: two rows; the first row's keys are not given in sorted order,
\* the second row lacks one of them and has a key of its own.
C8_Witness ==
    /\ call.op = "upsert"
    /\ result.kind = "payload"
    /\ Keys(call.data.rows[1]) = <<ColId, ColA_b, ColAZ>>
    /\ Len(call.data.rows) = 2
    /\ Keys(call.data.rows[2]) = <<ColAZ>>
    /\ result.bindings = <<Num(12), Num(11), Num(13), Num(22), Undefined, Undefined>>

\* C9: compileUpsert fails with 'No values to upsert' exactly when there is
\* nothing to insert: the first row has no keys, or the list of rows is empty.
C9_NoColumnsToUpsert ==
    call.op = "upsert" =>
        (result = Throw("No values to upsert")
            <=> (call.data.rows = <<>> \/ Keys(call.data.rows[1]) = <<>>))

(***************************************************************************)
(* The chain table and the constants of the router.                        *)
(***************************************************************************)
\* chainIdForSchema, inverted: the pairs <<chain id, schema>>.
schemaForChainId ==
    <<<<1, <<"e", "t", "h", "e", "r", "e", "u", "m">>>>,
      <<5, <<"g", "o", "e", "r", "l", "i">>>>,
      <<137, <<"p", "o", "l", "y", "g", "o", "n">>>>,
      <<80001, <<"m", "u", "m", "b", "a", "i">>>>,
      <<8453, <<"b", "a", "s", "e">>>>,
      <<10, <<"o", "p", "t", "i", "m", "i", "s", "m">>>>,
      <<42161, <<"a", "r", "b", "i", "t", "r", "u", "m">>>>,
      <<424, <<"p", "g", "n">>>>,
      <<42220, <<"c", "e", "l", "o">>>>,
      <<59144, <<"l", "i", "n", "e", "a">>>>,
      <<11155111, <<"s", "e", "p", "o", "l", "i", "a">>>>>>

SPEC_SCHEMA == <<"s", "p", "e", "c">>

CHAIN_ID_PROPERTY == <<"c", "h", "a", "i", "n", "I", "d">>

emptyResponseTable == <<"e", "t", "h", "e", "r", "e", "u", "m", ".", "b", "l", "o", "c", "k", "s">>

emptyResponseFilters == <<<< <<<<"n", "u", "m", "b", "e", "r">>, Num(-1)>> >>>>

\* The 8 values of FilterOp.
filterOpValues == {"=", "!=", ">", ">=", "<", "<=", "in", "not in"}

\* The values of OrderByDirection.
orderByDirections == {"asc", "desc"}

\* Whether a value is truthy.
Truthy(value) ==
    CASE value.ty \in {"undefined", "null"} -> FALSE
      [] value.ty = "number" -> value.n # 0
      [] OTHER -> TRUE

\* schemaForChainId[chainId.toString()]: <<>> when the table has no such id.
\* Numbers and strings of digits print as their digits; nothing else is a key
\* of the table.
ChainSchema(chainId) ==
    IF /\ chainId.ty \in {"number", "string"}
       /\ \E i \in DOMAIN schemaForChainId : schemaForChainId[i][1] = chainId.n
    THEN schemaForChainId[CHOOSE i \in DOMAIN schemaForChainId :
                                schemaForChainId[i][1] = chainId.n][2]
    ELSE <<>>

\* obj[key] = value: a new key is added last, a present key keeps its place.
Put(obj, key, value) ==
    IF \E i \in DOMAIN obj : obj[i][1] = key
    THEN [i \in DOMAIN obj |-> IF obj[i][1] = key THEN <<key, value>> ELSE obj[i]]
    ELSE Append(obj, <<key, value>>)

(***************************************************************************)
(* detectSpecSchemaQuery.  Returns [error, table, filters]; error is "" or *)
(* the message that is thrown.                                             *)
(***************************************************************************)
Routed(table, filters) == [error |-> "", table |-> table, filters |-> filters]

RouteError(error) == [error |-> error, table |-> <<>>, filters |-> <<>>]

\* A copy of the filter group that keeps its chain-id property.
WithChainId(filter) == filter

\* The copy of a filter group made by the loop over its keys: every key but
\* the chain-id property.
RECURSIVE WithoutChainId(_)
WithoutChainId(filter) ==
    IF filter = <<>> THEN <<>>
    ELSE (IF Head(filter)[1] = CHAIN_ID_PROPERTY THEN <<>> ELSE <<Head(filter)>>)
            \o WithoutChainId(Tail(filter))

\* [chainSchema, tableName].join('.')
ChainTableName(chainSchema, table) ==
    JoinStr(<<chainSchema, TableName(table)>>, ".")

\* A branch for options.chainId that fails on a chain id it does not know.
RouteByOptionStrict(table, filters, chainId) ==
    IF ChainSchema(chainId) = <<>>
    THEN RouteError("Unknown chain id")
    ELSE Routed(ChainTableName(ChainSchema(chainId), table), filters)

\* The branch taken when options.chainId is given.
RouteByOption(table, filters, chainId) ==
    IF ChainSchema(chainId) = <<>>
    THEN Routed(emptyResponseTable, emptyResponseFilters)
    ELSE Routed(ChainTableName(ChainSchema(chainId), table), filters)

\* The branch taken when options.chainId is not given.
RouteByFilters(table, filters) ==
    IF filters = <<>> THEN RouteError("Filters are required")
    ELSE LET chainId == Get(filters[1], CHAIN_ID_PROPERTY)
         IN  IF ~Truthy(chainId) THEN RouteError("No chainId filter included")
             ELSE IF ChainSchema(chainId) = <<>>
             THEN Routed(emptyResponseTable, emptyResponseFilters)
             ELSE IF \E i \in DOMAIN filters :
                        Get(filters[i], CHAIN_ID_PROPERTY) # chainId
             THEN RouteError("All filters must have equivalent chainId")
             ELSE Routed(ChainTableName(ChainSchema(chainId), table),
                         [i \in DOMAIN filters |-> WithoutChainId(filters[i])])

detectSpecSchemaQuery(table, filters, options) ==
    IF SchemaName(table) # SPEC_SCHEMA THEN Routed(table, filters)
    ELSE IF Truthy(options.chainId) THEN RouteByOption(table, filters, options.chainId)
    ELSE RouteByFilters(table, filters)

(***************************************************************************)
(* buildAndStatement.                                                      *)
(***************************************************************************)
\* isObject && value.op && value.hasOwnProperty('value'), for a value that
\* is not null.
IsFilterObject(value) ==
    /\ value.ty = "object"
    /\ value.op # ""
    /\ Len(value.val) = 1

\* Reading value.op throws when the value is null: typeof null is 'object',
\* and isFilterObject is computed before the value is compared with null.
EntryThrows(value) == value.ty = "null"

\* The condition of the `continue` that skips an entry.
EntryDropped(value) ==
    \/ value.ty = "null"
    \/ value.ty = "undefined"
    \/ (IsArray(value) /\ value.items = <<>>)
    \/ (IsArray(value) /\ \E i \in DOMAIN value.items : IsArray(value.items[i]))
    \/ (value.ty = "object" /\ (NumKeys(value) = 0 \/ ~IsFilterObject(value)))

\* colPath.includes(',')
IsMultiColComparison(colPath) == \E i \in DOMAIN colPath : colPath[i] = ","

\* An operator choice that defaults every list to `in`.
EntryOpListAlwaysIn(colPath, value) ==
    IF IsArray(value) THEN "in"
    ELSE IF IsFilterObject(value) THEN value.op
    ELSE "="

\* The operator of an entry that was not dropped.
EntryOp(colPath, value) ==
    IF IsArray(value) /\ ~IsMultiColComparison(colPath) THEN "in"
    ELSE IF IsFilterObject(value) THEN value.op
    ELSE "="

\* The value that is compared: the value property of an explicit filter,
\* unless the value is a list on a single-column path.
EntryValue(colPath, value) ==
    IF IsArray(value) /\ ~IsMultiColComparison(colPath) THEN value
    ELSE IF IsFilterObject(value) THEN value.val[1]
    ELSE value

\* A binding of one value that does not advance the binding index.
BindOneNoIncrement(v, st) ==
    [i |-> st.i,
     values |-> Append(st.values, v),
     placeholders |-> Append(st.placeholders, <<Placeholder(st.i, v)>>)]

\* `$${bindingIndex.i}`, values.push(v), bindingIndex.i++.
\* st is [i, values, placeholders].
BindOne(v, st) ==
    [i |-> st.i + 1,
     values |-> Append(st.values, v),
     placeholders |-> Append(st.placeholders, <<Placeholder(st.i, v)>>)]

\* The loop over the elements of a list value.
RECURSIVE BindEach(_, _)
BindEach(list, st) ==
    IF list = <<>> THEN st ELSE BindEach(Tail(list), BindOne(Head(list), st))

\* The column side of a statement.
ColEntry(colPath) ==
    IF IsMultiColComparison(colPath)
    THEN <<Kw("(")>>
            \o JoinToks([i \in DOMAIN Split(colPath, ",") |->
                            identPath(Split(colPath, ",")[i])],
                        <<Kw(",")>>)
            \o <<Kw(")")>>
    ELSE identPath(colPath)

\* One pass of the loop over the keys of a group.
\* st is [i, values, statements, error].
EntryStep(colPath, value, st) ==
    IF EntryThrows(value) THEN [st EXCEPT !.error = "TypeError"]
    ELSE IF EntryDropped(value) THEN st
    ELSE IF EntryOp(colPath, value) \notin filterOpValues THEN st
    ELSE LET v == EntryValue(colPath, value)
             b0 == [i |-> st.i, values |-> st.values, placeholders |-> <<>>]
             b == IF IsArray(v) THEN BindEach(v.items, b0) ELSE BindOne(v, b0)
             valuePlaceholder ==
                IF IsArray(v)
                THEN <<Kw("(")>> \o JoinToks(b.placeholders, <<Kw(",")>>) \o <<Kw(")")>>
                ELSE b.placeholders[1]
         IN  [i |-> b.i,
              values |-> b.values,
              statements |->
                 Append(st.statements,
                        ColEntry(colPath) \o <<OpTok(EntryOp(colPath, value))>>
                            \o valuePlaceholder),
              error |-> st.error]

RECURSIVE EntryLoop(_, _, _)
EntryLoop(filtersMap, k, st) ==
    IF k > Len(filtersMap) \/ st.error # "" THEN st
    ELSE EntryLoop(filtersMap, k + 1,
                   EntryStep(filtersMap[k][1], filtersMap[k][2], st))

\* buildAndStatement(filtersMap, values, bindingIndex): the statements of
\* the group joined by `and` (<<>> for null and for the empty string), with
\* the values and the binding index as the call leaves them.
buildAndStatement(filtersMap, values, i) ==
    LET st == EntryLoop(filtersMap, 1,
                [i |-> i, values |-> values, statements |-> <<>>, error |-> ""])
    IN  [i |-> st.i,
         values |-> st.values,
         andStatement |-> JoinToks(st.statements, <<Kw("and")>>),
         error |-> st.error]

(***************************************************************************)
(* addSelectOptionsToQuery.  options is [chainId, blockRange, orderBy,     *)
(* offset, limit]: orderBy is [ty, names, direction] like returning,       *)
(* offset and limit are <<>> when options has no such key.                 *)
(***************************************************************************)
OrderByGiven(orderBy) ==
    /\ \/ orderBy.ty = "array"
       \/ (orderBy.ty = "string" /\ orderBy.names[1] # <<>>)
    /\ orderBy.direction \in orderByDirections

addSelectOptionsToQuery(sql, options) ==
    sql
    \o (IF OrderByGiven(options.orderBy)
        THEN <<Kw("order by"), Kw("(")>>
                \o JoinToks([i \in DOMAIN options.orderBy.names |->
                                identPath(toSnakeCase(options.orderBy.names[i]))],
                            <<Kw(",")>>)
                \o <<Kw(")"), Kw(options.orderBy.direction)>>
        ELSE <<>>)
    \o (IF options.offset # <<>> THEN <<Kw("offset"), literal(options.offset[1])>> ELSE <<>>)
    \o (IF options.limit # <<>> THEN <<Kw("limit"), literal(options.limit[1])>> ELSE <<>>)

(***************************************************************************)
(* buildSelectQuery.  filters is [shape, groups]: shape is "array",        *)
(* "object" (one group, or null) or "undefined"; a group is [ok, entries], *)
(* ok false for a null in place of a group.                                *)
(***************************************************************************)
\* (filtersIsArray ? filters : [filters]).filter((f) => !!f)
RECURSIVE TruthyGroups(_)
TruthyGroups(groups) ==
    IF groups = <<>> THEN <<>>
    ELSE (IF Head(groups).ok THEN <<Head(groups).entries>> ELSE <<>>)
            \o TruthyGroups(Tail(groups))

\* The copy of a group with its keys converted to snake_case.
RECURSIVE FormatKeys(_, _)
FormatKeys(filter, formatted) ==
    IF filter = <<>> THEN formatted
    ELSE FormatKeys(Tail(filter),
                    Put(formatted, toSnakeCase(Head(filter)[1]), Head(filter)[2]))

\* The loop over the groups.  st is [i, values, orStatements, error].
RECURSIVE GroupLoop(_, _, _)
GroupLoop(filters, g, st) ==
    IF g > Len(filters) \/ st.error # "" THEN st
    ELSE LET a == buildAndStatement(FormatKeys(filters[g], <<>>), st.values, st.i)
         IN  GroupLoop(filters, g + 1,
                [i |-> a.i,
                 values |-> a.values,
                 orStatements |->
                    IF a.andStatement # <<>>
                    THEN Append(st.orStatements, a.andStatement)
                    ELSE st.orStatements,
                 error |-> a.error])

Parenthesized(s) == <<Kw("(")>> \o s \o <<Kw(")")>>

\* The statement of the block range, its bounds written as literals.
BlockRangeStatement(blockRange) ==
    <<Kw("block_number >="), literal(blockRange[1])>>
        \o (IF Len(blockRange) > 1
            THEN <<Kw("and block_number <="), literal(blockRange[2])>>
            ELSE <<>>)

\* The groups of the where clause: the block range, then the or of the groups.
WhereGroups(blockRange, orStatements) ==
    (IF blockRange # <<>> THEN <<BlockRangeStatement(blockRange)>> ELSE <<>>)
    \o (IF orStatements # <<>>
        THEN <<IF Len(orStatements) > 1
               THEN JoinToks([i \in DOMAIN orStatements |->
                                Parenthesized(orStatements[i])], <<Kw("or")>>)
               ELSE orStatements[1]>>
        ELSE <<>>)

WhereClause(whereGroups) ==
    IF Len(whereGroups) > 1
    THEN JoinToks([i \in DOMAIN whereGroups |-> Parenthesized(whereGroups[i])],
                  <<Kw("and")>>)
    ELSE whereGroups[1]

buildSelectQuery(table, filters, options) ==
    LET blockRange == options.blockRange
        routed == detectSpecSchemaQuery(table, TruthyGroups(filters.groups), options)
    IN  IF routed.error # "" THEN Throw(routed.error)
        ELSE
        LET select == <<Kw("select * from")>> \o identPath(routed.table)
            filtersIsEmpty ==
                /\ filters.shape \in {"array", "object"}
                /\ routed.filters = <<>>
            unfiltered ==
                Payload(routed.table, addSelectOptionsToQuery(select, options), <<>>)
        IN  IF filtersIsEmpty /\ blockRange = <<>> THEN unfiltered
            ELSE
            LET st == GroupLoop(routed.filters, 1,
                        [i |-> 1, values |-> <<>>, orStatements |-> <<>>,
                         error |-> ""])
            IN  IF st.error # "" THEN Throw(st.error)
                ELSE IF st.orStatements = <<>> /\ blockRange = <<>> THEN unfiltered
                ELSE Payload(routed.table,
                        addSelectOptionsToQuery(
                            select \o <<Kw("where")>>
                                \o WhereClause(WhereGroups(blockRange, st.orStatements)),
                            options),
                        st.values)

(***************************************************************************)
(* buildSelectQuery applied to bounded inputs.                             *)
(***************************************************************************)
SpecTable == <<"s", "p", "e", "c", ".", "t">>

ColAB == <<"a", ",", "b">>

ColA_z == <<"a", "_", "z">>

ColTId == <<"t", ".", "i", "d">>

\* Every kind of value an entry can hold.
ValueKinds ==
    {Undefined, Null, Num(5), Str(6), List(<<>>), List(<<Num(1), Num(2)>>),
     List(<<List(<<Num(1)>>)>>), Obj("", 0), Obj("", 1), Obj(">=", 0),
     Filter(">=", Num(21)), Filter("like", Num(1)),
     Filter("not in", List(<<Num(1), Num(2)>>)), Filter("=", Null),
     Filter("=", Undefined), Filter("in", List(<<>>)),
     Filter("=", List(<<List(<<Num(1)>>)>>))}

\* Entries that are combined into groups: values that are kept and values
\* that are dropped, and two keys with the same snake_case form.
PlainEntries ==
    {<<ColId, v>> : v \in {Undefined, Num(5), List(<<Num(1), Num(2)>>)}}
    \cup {<<ColAZ, Num(7)>>, <<ColA_z, Undefined>>}

\* Entries for a table of the logical schema: chain ids in and out of the
\* chain table, as numbers and as strings, and another column.
RoutedEntries ==
    {<<CHAIN_ID_PROPERTY, v>> : v \in {Num(1), Str(1), Num(5), Num(999), Num(0)}}
    \cup {<<ColId, Num(7)>>}

NullGroup == [ok |-> FALSE, entries |-> <<>>]

Group(entries) == [ok |-> TRUE, entries |-> entries]

\* The groups of at most n entries with distinct keys, and null.
GroupsUpTo(E, n) ==
    {NullGroup}
    \cup {Group(es) : es \in {x \in SeqsUpTo(E, n) :
                                \A i, j \in DOMAIN x : i # j => x[i][1] # x[j][1]}}

\* The lists of at most g groups that hold at most n entries together.
RECURSIVE GroupListsUpTo(_, _, _)
GroupListsUpTo(E, g, n) ==
    IF g = 0 THEN {<<>>}
    ELSE {<<>>}
         \cup UNION {{<<grp>> \o rest :
                        rest \in GroupListsUpTo(E, g - 1, n - Len(grp.entries))} :
                     grp \in GroupsUpTo(E, n)}

\* A list of groups, one group (or null) in place of a list, or nothing.
FiltersOver(E) ==
    {[shape |-> "array", groups |-> gs] : gs \in GroupListsUpTo(E, MaxGroups, MaxEntries)}
    \cup {[shape |-> "object", groups |-> <<grp>>] : grp \in GroupsUpTo(E, MaxEntries)}
    \cup {[shape |-> "undefined", groups |-> <<NullGroup>>]}

NoOrderBy == [ty |-> "undefined", names |-> <<>>, direction |-> ""]

OrderBy(ty, names, direction) == [ty |-> ty, names |-> names, direction |-> direction]

Options(chainId, blockRange, orderBy, offset, limit) ==
    [chainId |-> chainId, blockRange |-> blockRange, orderBy |-> orderBy,
     offset |-> offset, limit |-> limit]

NoOptions == Options(Undefined, <<>>, NoOrderBy, <<>>, <<>>)

SelectArgs(table, filters, options) ==
    [op |-> "select", table |-> table, filters |-> filters, options |-> options]

\* One entry of every kind of value, on every kind of column path.
SelectValueInputs ==
    {SelectArgs(PublicTable,
                [shape |-> "object", groups |-> <<Group(<<<<k, v>>>>)>>],
                NoOptions) :
        k \in {ColId, ColAB, ColAZ, ColTId}, v \in ValueKinds}

\* Every shape of filters on a table outside the logical schema.
SelectPlainInputs ==
    {SelectArgs(PublicTable, f, o) :
        f \in FiltersOver(PlainEntries),
        o \in {NoOptions,
               Options(Undefined, <<Num(3), Num(9)>>, NoOrderBy, <<Num(2)>>, <<>>)}}

\* Every way of giving a chain id for a table of the logical schema.
SelectRoutedInputs ==
    {SelectArgs(SpecTable, f, Options(c, <<>>, NoOrderBy, <<>>, <<>>)) :
        f \in FiltersOver(RoutedEntries),
        c \in {Undefined, Str(1), Str(999)}}

\* Every setting of the options, with a few filters.
SelectOptionInputs ==
    {SelectArgs(t, f, Options(c, b, ob, off, lim)) :
        t \in {PublicTable, SpecTable},
        f \in {[shape |-> "undefined", groups |-> <<NullGroup>>],
               [shape |-> "object", groups |-> <<Group(<<<<ColId, Num(5)>>>>)>>],
               [shape |-> "array",
                groups |-> <<Group(<<<<CHAIN_ID_PROPERTY, Num(1)>>,
                                     <<ColAZ, List(<<Num(1), Num(2)>>)>>>>)>>]},
        c \in {Undefined, Str(137), Str(999)},
        b \in {<<>>, <<Num(3)>>, <<Num(3), Num(9)>>},
        ob \in {NoOrderBy, OrderBy("string", <<ColAZ>>, "asc"),
                OrderBy("array", <<ColTId, ColId>>, "desc"),
                OrderBy("string", <<ColId>>, "up")},
        off \in {<<>>, <<Num(10)>>},
        lim \in {<<>>, <<Num(20)>>}}

SelectInputs ==
    SelectValueInputs \cup SelectPlainInputs \cup SelectRoutedInputs
        \cup SelectOptionInputs

Select ==
    /\ call = NoCall
    /\ \E a \in SelectInputs :
        /\ call' = a
        /\ result' = buildSelectQuery(a.table, a.filters, a.options)

SelectNext == Select

SelectSpec == Init /\ [][SelectNext]_vars

Next == Select \/ Upsert \/ Normalize

Spec == Init /\ [][Next]_vars

(***************************************************************************)
(* What the claims say about an entry, stated on its own.                  *)
(***************************************************************************)
IsPlaceholder(t) == t.k = "$"

IsOpTok(t) == t.k = "op"

\* An explicit filter: an object with an op and a value key.
IsExplicit(v) == v.ty = "object" /\ v.op # "" /\ Len(v.val) = 1

\* The entries that add no predicate: null, undefined, an empty list, a list
\* that holds a list, an object that is no explicit filter, and an explicit
\* filter whose op is none of the 8 operators.
ClaimDropped(v) ==
    \/ v.ty \in {"null", "undefined"}
    \/ (v.ty = "list" /\ (v.items = <<>> \/ \E i \in DOMAIN v.items : v.items[i].ty = "list"))
    \/ (v.ty = "object" /\ ~IsExplicit(v))
    \/ (IsExplicit(v) /\ v.op \notin filterOpValues)

HasComma(colPath) == "," \in Range(colPath)

\* The declared op of an explicit filter, `in` for a plain list on a path
\* without a comma, `=` otherwise.
ClaimOp(colPath, v) ==
    IF IsExplicit(v) THEN v.op
    ELSE IF v.ty = "list" /\ ~HasComma(colPath) THEN "in"
    ELSE "="

\* The value an entry compares with.
ClaimValue(v) == IF IsExplicit(v) THEN v.val[1] ELSE v

\* The values an entry binds: the elements of a list, or the one value.
ClaimBound(v) ==
    IF ClaimValue(v).ty = "list" THEN ClaimValue(v).items ELSE <<ClaimValue(v)>>

IsKept(e) == ~ClaimDropped(e[2])

\* The entries of the groups that are not dropped, in order.
KeptEntries(groups) ==
    Flatten([g \in DOMAIN groups |-> SelectSeq(groups[g], IsKept)])

\* The values the kept entries bind, in order.
ExpectedBindings(groups) ==
    Flatten([i \in DOMAIN KeptEntries(groups) |-> ClaimBound(KeptEntries(groups)[i][2])])

\* The groups that are compiled: after the router, with normalized keys.
CompiledGroups(c) ==
    LET r == detectSpecSchemaQuery(c.table, TruthyGroups(c.filters.groups), c.options)
    IN  [g \in DOMAIN r.filters |-> FormatKeys(r.filters[g], <<>>)]

\* C1: in every payload of compileSelect and compileUpsert the placeholders
\* of sql are $1..$k in order of appearance with k = bindings.length,
\* bindings[n-1] is the value bound when $n was written, and the bindings
\* are the values of the kept entries (of the cells of the rows) and nothing
\* else: dropped entries, block range bounds, offset and limit add none.
C1_Placeholders ==
    result.kind = "payload" =>
        LET ph == SelectSeq(result.sql, IsPlaceholder)
        IN  /\ Len(ph) = Len(result.bindings)
            /\ \A n \in DOMAIN ph :
                /\ ph[n].n = n
                /\ ph[n].b = <<result.bindings[n]>>
            /\ call.op = "select" =>
                result.bindings = ExpectedBindings(CompiledGroups(call))
            /\ call.op = "upsert" =>
                Len(result.bindings)
                    = Len(call.data.rows) * Len(call.data.rows[1])

\* C1 witness: a select with a block range and an offset, two groups, a
\* dropped entry, and a list bound element by element after a scalar.
C1_Witness ==
    /\ call.op = "select"
    /\ result.kind = "payload"
    /\ call.options.blockRange # <<>>
    /\ call.options.offset # <<>>
    /\ call.filters.groups =
        <<Group(<<<<ColId, Num(5)>>, <<ColA_z, Undefined>>>>),
          Group(<<<<ColId, List(<<Num(1), Num(2)>>)>>>>)>>
    /\ result.bindings = <<Num(5), Num(1), Num(2)>>
    /\ Len(SelectSeq(result.sql, IsPlaceholder)) = 3

(***************************************************************************)
(* The router.                                                             *)
(***************************************************************************)
IsLogical(c) == c.op = "select" /\ SchemaName(c.table) = SPEC_SCHEMA

\* C2: on the logical schema with no options.chainId, two filter groups with
\* different chain ids make compileSelect fail with
\* InconsistentChainIdAcrossFilterGroups, whether or not the chain id of the
\* first group is in the chain table.
C2_Inconsistent ==
    (/\ IsLogical(call)
     /\ ~Truthy(call.options.chainId)
     /\ LET gs == TruthyGroups(call.filters.groups)
        IN  /\ \A g \in DOMAIN gs : Truthy(Get(gs[g], CHAIN_ID_PROPERTY))
            /\ \E g, h \in DOMAIN gs :
                Get(gs[g], CHAIN_ID_PROPERTY) # Get(gs[h], CHAIN_ID_PROPERTY))
    => result = Throw("All filters must have equivalent chainId")

\* The chain id a call resolves to: options.chainId when given, otherwise
\* the chain-id property of the first group (Undefined when there is none).
ResolvedChainId(c) ==
    IF Truthy(c.options.chainId) THEN c.options.chainId
    ELSE IF TruthyGroups(c.filters.groups) = <<>> THEN Undefined
    ELSE Get(TruthyGroups(c.filters.groups)[1], CHAIN_ID_PROPERTY)

\* The groups of a call agree on the chain id of the first one.
SameChainIds(c) ==
    \A g \in DOMAIN TruthyGroups(c.filters.groups) :
        Get(TruthyGroups(c.filters.groups)[g], CHAIN_ID_PROPERTY) = ResolvedChainId(c)

\* The schema of the chain table for a chain id given as number or string.
MappedSchema(chainId) ==
    LET hit == {i \in DOMAIN schemaForChainId : schemaForChainId[i][1] = chainId.n}
    IN  IF hit = {} THEN <<>> ELSE schemaForChainId[CHOOSE i \in hit : TRUE][2]

\* A recognized chain id was resolved, and the groups do not contradict it.
Recognized(c) ==
    /\ IsLogical(c)
    /\ Truthy(ResolvedChainId(c))
    /\ MappedSchema(ResolvedChainId(c)) # <<>>
    /\ (Truthy(c.options.chainId) \/ SameChainIds(c))

\* The groups without the entries of the chain-id property.
StrippedGroups(groups) ==
    LET NotChainId(e) == e[1] # CHAIN_ID_PROPERTY
    IN  [g \in DOMAIN groups |->
            IF groups[g].ok
            THEN Group(SelectSeq(groups[g].entries, NotChainId))
            ELSE groups[g]]

IdentNames(sql) == {sql[i].s : i \in {j \in DOMAIN sql : sql[j].k = "ident"}}

\* The table of the mapped schema: <schema>.<tableName>.
MappedTable(c) ==
    MappedSchema(ResolvedChainId(c)) \o <<".">> \o TableName(c.table)

\* The call with no chain id in its options.
WithoutChainOption(options) == [options EXCEPT !.chainId = Undefined]

\* C3 as claimed: with a recognized chain id, however it was supplied, the
\* payload targets <mapped schema>.<tableName> and holds no predicate and no
\* value for the chain-id property, the other entries being compiled as
\* they are without routing.
C3_StrippedHoweverSupplied ==
    (Recognized(call) /\ result.kind = "payload") =>
        /\ result.schemaName = MappedSchema(ResolvedChainId(call))
        /\ result.tableName = TableName(call.table)
        /\ toSnakeCase(CHAIN_ID_PROPERTY) \notin IdentNames(result.sql)
        /\ result =
            buildSelectQuery(MappedTable(call),
                             [call.filters EXCEPT !.groups = StrippedGroups(@)],
                             WithoutChainOption(call.options))

\* C3 amended: with a recognized chain id the payload targets
\* <mapped schema>.<tableName>.  When the chain id comes from the filter
\* groups, the entries of the chain-id property are compiled into no
\* predicate and no binding and the other entries are compiled as they are
\* without routing; when it comes from options.chainId, the groups are
\* compiled unchanged, an entry of the chain-id property like any other.
C3_StrippedFromFilters ==
    Recognized(call) =>
        /\ result.kind = "payload" =>
            /\ result.schemaName = MappedSchema(ResolvedChainId(call))
            /\ result.tableName = TableName(call.table)
        /\ ~Truthy(call.options.chainId) =>
            /\ result.kind = "payload" =>
                toSnakeCase(CHAIN_ID_PROPERTY) \notin IdentNames(result.sql)
            /\ result =
                buildSelectQuery(MappedTable(call),
                                 [call.filters EXCEPT !.groups = StrippedGroups(@)],
                                 call.options)
        /\ Truthy(call.options.chainId) =>
            result = buildSelectQuery(MappedTable(call), call.filters,
                                      WithoutChainOption(call.options))

\* C3 witness: the chain id comes from two groups that agree on it; the
\* other entry of the first group is the only predicate.
C3_Witness ==
    /\ call.op = "select"
    /\ call.table = SpecTable
    /\ ~Truthy(call.options.chainId)
    /\ call.filters.groups =
        <<Group(<<<<CHAIN_ID_PROPERTY, Num(5)>>, <<ColId, Num(7)>>>>),
          Group(<<<<CHAIN_ID_PROPERTY, Num(5)>>>>)>>
    /\ result.kind = "payload"
    /\ result.schemaName = <<"g", "o", "e", "r", "l", "i">>
    /\ result.tableName = <<"t">>
    /\ result.bindings = <<Num(7)>>

\* The predicate of the sentinel filters.
SentinelPredicate ==
    <<ident(<<"n", "u", "m", "b", "e", "r">>), OpTok("="), Placeholder(1, Num(-1))>>

\* C4: on the logical schema, a resolved chain id that is not in the chain
\* table does not fail: the payload is compiled against ethereum.blocks,
\* its filter predicate is "number" = $1 with binding -1, and no entry or
\* value of the caller is in sql or bindings.
C4_Sentinel ==
    (/\ IsLogical(call)
     /\ Truthy(ResolvedChainId(call))
     /\ MappedSchema(ResolvedChainId(call)) = <<>>)
    => /\ result.kind = "payload"
       /\ result.schemaName = <<"e", "t", "h", "e", "r", "e", "u", "m">>
       /\ result.tableName = <<"b", "l", "o", "c", "k", "s">>
       /\ result.bindings = <<Num(-1)>>
       /\ LET select == <<Kw("select * from"), ident(result.schemaName), Kw("."),
                          ident(result.tableName), Kw("where")>>
              range == call.options.blockRange
              where ==
                IF range = <<>> THEN SentinelPredicate
                ELSE Parenthesized(
                        <<Kw("block_number >="), literal(range[1])>>
                        \o (IF Len(range) > 1
                            THEN <<Kw("and block_number <="), literal(range[2])>>
                            ELSE <<>>))
                     \o <<Kw("and")>> \o Parenthesized(SentinelPredicate)
          IN  result.sql
                = addSelectOptionsToQuery(select \o where,
                    [call.options EXCEPT !.blockRange = <<>>])

\* C4 witness: the chain id of the first group is unknown, the second group
\* names another chain and the caller filters on a column of its own.
C4_Witness ==
    /\ call.op = "select"
    /\ call.table = SpecTable
    /\ ~Truthy(call.options.chainId)
    /\ call.filters.groups =
        <<Group(<<<<CHAIN_ID_PROPERTY, Num(999)>>, <<ColId, Num(7)>>>>),
          Group(<<<<CHAIN_ID_PROPERTY, Num(1)>>>>)>>
    /\ result.kind = "payload"
    /\ result.bindings = <<Num(-1)>>

(***************************************************************************)
(* The filter compiler.                                                    *)
(***************************************************************************)
\* The groups without the entries that the claims call dropped.
WithoutDropped(groups) ==
    [g \in DOMAIN groups |->
        IF groups[g].ok
        THEN Group(SelectSeq(groups[g].entries, IsKept))
        ELSE groups[g]]

\* C5: outside the logical schema an entry whose value is null, undefined,
\* an empty list, an object that is no explicit filter, or an explicit
\* filter with an unknown op raises no error and adds nothing: the payload
\* is the one compiled from the other entries alone, and the unfiltered
\* select with no bindings when no entry is left and no block range given.
C5_DroppedSilently ==
    (call.op = "select" /\ ~IsLogical(call)) =>
        /\ result.kind = "payload"
        /\ result = buildSelectQuery(call.table,
                        [call.filters EXCEPT !.groups = WithoutDropped(@)],
                        call.options)
        /\ (/\ KeptEntries(TruthyGroups(call.filters.groups)) = <<>>
            /\ call.options.blockRange = <<>>)
           => /\ result.sql
                    = addSelectOptionsToQuery(
                        <<Kw("select * from")>> \o identPath(call.table),
                        call.options)
              /\ result.bindings = <<>>

\* sub occurs in s as a contiguous run of tokens.
Contains(s, sub) ==
    \E p \in 1..(Len(s) - Len(sub) + 1) : SubSeq(s, p, p + Len(sub) - 1) = sub

\* ("c1", "c2") = ($start, ...): the tuple comparison of a multi-column path
\* with a list.
TupleComparison(colPath, items, start) ==
    Parenthesized(JoinToks([i \in DOMAIN Split(colPath, ",") |->
                                identPath(Split(colPath, ",")[i])],
                           <<Kw(",")>>))
    \o <<OpTok("=")>>
    \o Parenthesized(JoinToks([i \in DOMAIN items |->
                                <<Placeholder(start + i - 1, items[i])>>],
                              <<Kw(",")>>))

HasUnusableList(v) ==
    /\ ClaimValue(v).ty = "list"
    /\ \/ ClaimValue(v).items = <<>>
       \/ \E i \in DOMAIN ClaimValue(v).items : ClaimValue(v).items[i].ty = "list"

HasUsableValue(e) == ~HasUnusableList(e[2])

\* The groups without the entries whose comparison value is such a list.
WithoutUnusableLists(groups) ==
    [g \in DOMAIN groups |->
        IF groups[g].ok
        THEN Group(SelectSeq(groups[g].entries, HasUsableValue))
        ELSE groups[g]]

\* An opening parenthesis directly followed by a closing one.
HasEmptyParentheses(sql) ==
    \E p \in 1..(Len(sql) - 1) : sql[p] = Kw("(") /\ sql[p + 1] = Kw(")")

\* C11: in compileSelect an entry whose comparison value is a list that is
\* empty or that holds a nested list is dropped, whether the list is the
\* entry's value or the value of an explicit filter: the payload is the one
\* compiled without these entries, no binding is itself a list, and no
\* parenthesized group of placeholders is empty.
C11_UnusableListsDropped ==
    (call.op = "select" /\ result.kind = "payload") =>
        /\ result = buildSelectQuery(call.table,
                        [call.filters EXCEPT !.groups = WithoutUnusableLists(@)],
                        call.options)
        /\ \A n \in DOMAIN result.bindings : result.bindings[n].ty # "list"
        /\ ~HasEmptyParentheses(result.sql)

(***************************************************************************)
(* The de-acronym pass.                                                    *)
(***************************************************************************)
\* An uppercase letter that follows an uppercase letter and is followed by
\* an uppercase letter or is the last character.
InsideAcronym(val, i) ==
    /\ IsUpperLetter(val[i])
    /\ i > 1
    /\ IsUpperLetter(val[i - 1])
    /\ (i = Len(val) \/ IsUpperLetter(val[i + 1]))

\* C12: the de-acronym pass lowercases exactly the uppercase letters that
\* follow an uppercase letter and are followed by an uppercase letter or end
\* the string, tested on the original input, and copies every other
\* character: an uppercase letter after a digit, an underscore, a dot or a
\* comma stays uppercase.
C12_DeAcronymLettersOnly ==
    result.kind = "name" =>
        /\ Len(result.pass) = Len(call.value)
        /\ \A i \in DOMAIN call.value :
            result.pass[i] = IF InsideAcronym(call.value, i)
                             THEN toLowerCase(call.value[i])
                             ELSE call.value[i]

====
